---- MODULE Spec2Model ----
(***************************************************************************)
(* Model of public/app/features/plugins/plugin_loader.ts: the plugin       *)
(* import API (importPluginModule, importDataSourcePlugin,                 *)
(* importAppPlugin), the SystemJS hook overrides it installs (shouldFetch, *)
(* import) and the collaborators it calls (plugin cache, built-in          *)
(* registry, sandbox capability, generic loader).                          *)
(*                                                                         *)
(* JavaScript runs one task at a time: every action below is one           *)
(* synchronous run of code, from a call or a promise settlement up to the  *)
(* next await / return.  Import calls interleave only at those points.     *)
(***************************************************************************)
EXTENDS Naturals, Sequences, FiniteSets, TLC

\* ------------------------------------------------------------------------
\* Bounds
\* ------------------------------------------------------------------------

\* number of distinct non-empty plugin version strings "v1" .. "vN"
MaxVersion == 2

\* ------------------------------------------------------------------------
\* JavaScript values
\* ------------------------------------------------------------------------

Undefined == "undefined"
Null == "null"

\* optional booleans (isAngular?: boolean) are "true", "false" or Undefined
OptBool == {"true", "false", Undefined}

\* Boolean(x) for an optional boolean
ToBoolean(x) == x = "true"

\* optional version strings (version?: string); "" is present but falsy
Versions == {"v" \o ToString(n) : n \in 1..MaxVersion}
OptVersion == Versions \cup {"", Undefined}

\* truthiness of an optional string: if (version)
Truthy(s) == s # Undefined /\ s # ""

\* the import calls of a run: two calls, which may overlap in any way or
\* follow one another
CallIds == {1, 2}

\* ------------------------------------------------------------------------
\* Paths and URLs.  A module path is {host, name, abs, query}: host is "cdn"
\* for a path on a recognised CDN and "app" otherwise, abs tells if the path
\* went through resolution, query is the cache-busting suffix ("" if none).
\* ------------------------------------------------------------------------

Path(h, n) == [host |-> h, name |-> n, abs |-> FALSE, query |-> ""]

BuiltInModulePath == Path("app", "core:plugin/a")
BuiltInFactoryPath == Path("app", "core:plugin/b")
LocalPath == Path("app", "plugins/x/module")
CDNPath == Path("cdn", "plugins/y/module")

RequestPaths == {BuiltInModulePath, BuiltInFactoryPath, LocalPath, CDNPath}

\* loader/utils resolveModulePath: makes the path absolute
resolveModulePath(path) == [path EXCEPT !.abs = TRUE]

\* loader/utils isHostedOnCDN
isHostedOnCDN(url) == url.host = "cdn"

\* ------------------------------------------------------------------------
\* Plugin cache (loader/cache): normalised path -> {version, isAngular}
\* ------------------------------------------------------------------------

\* the cache key of a path or URL: the path without the cache-busting
\* query and without what resolution added
extractPath(path) == [host |-> path.host, name |-> path.name]

\* registerPluginInCache({path, version, isAngular}): stores / overwrites
registerPluginInCache(c, path, version, isAngular) ==
    LET key == extractPath(path)
        entry == [version |-> version, isAngular |-> isAngular]
    IN  [k \in DOMAIN c \cup {key} |-> IF k = key THEN entry ELSE c[k]]

\* getPluginFromCache(path) is defined iff hasPluginInCache(path)
hasPluginInCache(c, path) == extractPath(path) \in DOMAIN c
getPluginFromCache(c, path) == c[extractPath(path)]

\* the URL the generic loader fetches for a resolved module path: the
\* resolve/fetch decorations append a version-derived cache-busting
\* parameter when the cache knows the plugin
loaderUrl(c, modulePath) ==
    IF hasPluginInCache(c, modulePath)
    THEN [modulePath EXCEPT !.query = getPluginFromCache(c, modulePath).version]
    ELSE modulePath

\* ------------------------------------------------------------------------
\* systemJSPrototype.shouldFetch: TRUE = fetch and eval, FALSE = script tag
\* ------------------------------------------------------------------------

\* variant: an entry without the isAngular flag counts as Angular
shouldFetch_UndefinedIsAngular(c, url) ==
    \/ isHostedOnCDN(url)
    \/ (hasPluginInCache(c, url) /\ getPluginFromCache(c, url).isAngular # "false")

shouldFetch(c, url) ==
    \/ isHostedOnCDN(url)
    \/ (hasPluginInCache(c, url) /\ ToBoolean(getPluginFromCache(c, url).isAngular))

\* ------------------------------------------------------------------------
\* systemJSPrototype.import: the original import decorated so that a module
\* carrying __useDefault resolves to its default export
\* ------------------------------------------------------------------------

\* the module objects the loader, the sandbox or a factory may deliver
Modules == {"mPlugin", "mBoth", "mDatasource", "mEmpty", "mDefault"}

\* the exports of a module object (plugin: a pre-built plugin object,
\* Datasource: a legacy constructor)
exports(m) ==
    CASE m = "mPlugin" ->
           [useDefault |-> FALSE, default |-> Null, plugin |-> "P1", Datasource |-> Null]
      [] m = "mBoth" ->
           [useDefault |-> FALSE, default |-> Null, plugin |-> "P1", Datasource |-> "DsCtor"]
      [] m = "mDatasource" ->
           [useDefault |-> FALSE, default |-> Null, plugin |-> Null, Datasource |-> "DsCtor"]
      [] m = "mEmpty" ->
           [useDefault |-> FALSE, default |-> Null, plugin |-> Null, Datasource |-> Null]
      [] m = "mDefault" ->
           [useDefault |-> TRUE, default |-> "mPlugin", plugin |-> Null, Datasource |-> Null]

\* the module objects a delivery is exercised with: a direct call of
\* importPluginModule does not look into the module, one module with and
\* one without the __useDefault marker stand for all; the typed imports are
\* given every export shape
Deliveries(kind) == IF kind = "module" THEN {"mPlugin", "mDefault"} ELSE Modules

\* what the original import may resolve to
OriginalImportResults(kind) == Deliveries(kind) \cup {Null}

\* variant: the marker is ignored, the module is passed on as it came
decoratedImport_Identity(module) == module

\* variant: the default export is substituted without looking at the marker
decoratedImport_AlwaysDefault(module) ==
    IF module # Null THEN exports(module).default ELSE module

\* the .then callback of the decorated import
decoratedImport(module) ==
    IF module # Null /\ exports(module).useDefault
    THEN exports(module).default
    ELSE module

\* ------------------------------------------------------------------------
\* Built-in registry (built_in_plugins): path -> module | async factory
\* ------------------------------------------------------------------------

NotBuiltIn == [type |-> "undefined", module |-> Null]

builtInPlugins(path) ==
    CASE path = BuiltInModulePath -> [type |-> "object", module |-> "mPlugin"]
      [] path = BuiltInFactoryPath -> [type |-> "function", module |-> "mDatasource"]
      [] OTHER -> NotBuiltIn

\* variant: only factories count as built-in
hasBuiltIn_OnlyFunctions(builtIn) == builtIn.type = "function"

\* importPluginModule: if (builtIn)
hasBuiltIn(builtIn) == builtIn.type # "undefined"

\* importPluginModule: typeof builtIn === 'function'
isFunction(builtIn) == builtIn.type = "function"

\* ------------------------------------------------------------------------
\* Sandbox capability (sandbox/utils, sandbox/sandbox_plugin_loader)
\* ------------------------------------------------------------------------

\* isFrontendSandboxSupported({isAngular, pluginId}) once the environment's
\* feature detection has answered envSupported: legacy (Angular) plugins
\* are never eligible
isFrontendSandboxSupported(envSupported, isAngular, pluginId) ==
    envSupported /\ ~ToBoolean(isAngular)

\* ------------------------------------------------------------------------
\* Requests and plugin metadata
\* ------------------------------------------------------------------------

pluginIdOf(path) == "id:" \o path.name

\* plugin metadata: module, info.version, angular.detected, id
Meta(path, version, angular) ==
    [id |-> pluginIdOf(path), module |-> path, version |-> version, angular |-> angular]

Metas == {Meta(p, v, a) : p \in RequestPaths, v \in OptVersion, a \in OptBool}

NoPath == Path("none", "none")

NoMeta == [id |-> Undefined, module |-> NoPath, version |-> Undefined, angular |-> Undefined]

\* the request importDataSourcePlugin / importAppPlugin build from meta
RequestOf(meta) ==
    [path |-> meta.module, version |-> meta.version,
     isAngular |-> meta.angular, pluginId |-> meta.id]

Requests == {RequestOf(m) : m \in Metas}

\* the metadata the typed imports are exercised with
AdapterMetas == {Meta(p, v, a) : p \in RequestPaths, v \in {Undefined, "v1"},
                                 a \in {Undefined, "true"}}

\* variant: registers only plugins flagged as Angular
RegisterIfVersion_OnlyAngular(c, req) ==
    IF Truthy(req.version) /\ ToBoolean(req.isAngular)
    THEN registerPluginInCache(c, req.path, req.version, req.isAngular)
    ELSE c

\* variant: only an absent version is skipped, the empty string registers
RegisterIfVersion_EmptyRegisters(c, req) ==
    IF req.version # Undefined
    THEN registerPluginInCache(c, req.path, req.version, req.isAngular)
    ELSE c

\* variant: keeps the entry a path already has
RegisterIfVersion_KeepFirst(c, req) ==
    IF Truthy(req.version) /\ ~hasPluginInCache(c, req.path)
    THEN registerPluginInCache(c, req.path, req.version, req.isAngular)
    ELSE c

\* importPluginModule: if (version) registerPluginInCache(...)
RegisterIfVersion(c, req) ==
    IF Truthy(req.version)
    THEN registerPluginInCache(c, req.path, req.version, req.isAngular)
    ELSE c

\* variant: the test of the support query's answer negated
SandboxRoute_Inverted(supported) == IF supported THEN "loader" ELSE "sandbox"

\* variant: the answer ignored, always the generic loader
SandboxRoute_AlwaysLoader(supported) == "loader"

\* importPluginModule: the route taken once the support query resolved
SandboxRoute(supported) == IF supported THEN "sandbox" ELSE "loader"

\* ------------------------------------------------------------------------
\* Canonical plugin objects.  "P1" is the pre-built plugin object the
\* modules export; "new<c>" is the object call c constructs, if it does.
\* ops is the sequence of operations performed on the object.
\* ------------------------------------------------------------------------

NewObj(c) == "new" \o ToString(c)

ObjIds == {"P1"} \cup {NewObj(c) : c \in CallIds}

FreshObject == [alloc |-> FALSE, ctor |-> Null, meta |-> NoMeta, ops |-> <<>>]

PrebuiltObject == [alloc |-> TRUE, ctor |-> Null, meta |-> NoMeta, ops |-> <<>>]

\* new DataSourcePlugin(ctor) / new AppPlugin()
construct(h, o, ctor) ==
    [h EXCEPT ![o] = [alloc |-> TRUE, ctor |-> ctor, meta |-> NoMeta,
                      ops |-> <<[op |-> "new", ctor |-> ctor]>>]]

\* plugin.init(meta)
init(h, o, meta) ==
    [h EXCEPT ![o].ops = Append(@, [op |-> "init", meta |-> meta])]

\* plugin.meta = meta
setMeta(h, o, meta) ==
    [h EXCEPT ![o].meta = meta, ![o].ops = Append(@, [op |-> "meta", meta |-> meta])]

\* plugin.setComponentsFromLegacyExports(pluginExports)
setComponentsFromLegacyExports(h, o, module) ==
    [h EXCEPT ![o].ops = Append(@, [op |-> "legacy", module |-> module])]

\* ------------------------------------------------------------------------
\* State
\* ------------------------------------------------------------------------

VARIABLES
    cache,      \* the plugin cache: normalised path -> {version, isAngular}
    calls,      \* the import calls: position, arguments, trace, outcome
    heap,       \* the plugin objects
    lastReg,    \* history: per normalised path, the last request that registered it
    boot        \* the statements of the module's initialisation run so far

vars == <<cache, calls, heap, lastReg, boot>>

IdleCall ==
    [pc |-> "idle", kind |-> "module", meta |-> NoMeta, req |-> RequestOf(NoMeta),
     modulePath |-> NoPath, log |-> <<>>, raw |-> Null, module |-> Null,
     value |-> Null,
     error |-> Null]

Init ==
    /\ cache = [k \in {} |-> Null]
    /\ calls = [c \in CallIds |-> IdleCall]
    /\ heap = [o \in ObjIds |-> IF o = "P1" THEN PrebuiltObject ELSE FreshObject]
    /\ lastReg = [k \in {} |-> Null]
    /\ boot = <<>>

\* variant: the import map is installed after the hook overrides
StartupProgram_HooksFirst ==
    <<"buildImportMap", "shouldFetch", "import", "fetch", "resolve", "onload",
      "addImportMap">>

\* The module's top-level statements in program order: the import map is
\* built and installed, then the loader's hooks are overridden.
StartupProgram ==
    <<"buildImportMap", "addImportMap", "shouldFetch", "import", "fetch", "resolve",
      "onload">>

\* the module has been evaluated: its exports can be called
Loaded == Len(boot) = Len(StartupProgram)

\* the next top-level statement of the module runs
Startup ==
    /\ ~Loaded
    /\ boot' = Append(boot, StartupProgram[Len(boot) + 1])
    /\ UNCHANGED <<cache, calls, heap, lastReg>>

\* trace helpers
Ev(name) == [op |-> name]

Count(log, name) == Cardinality({i \in DOMAIN log : log[i].op = name})

Has(log, name) == \E i \in DOMAIN log : log[i].op = name

\* ------------------------------------------------------------------------
\* importPluginModule
\* ------------------------------------------------------------------------

\* variant: a call joins the support query another call for the same path
\* is still waiting for
querySupport_Shared(req) ==
    IF \E d \in CallIds : calls[d].pc = "awaitSupport" /\ calls[d].req.path = req.path
    THEN <<Ev("resolve")>>
    ELSE <<Ev("resolve"),
           [op |-> "supportQuery", isAngular |-> req.isAngular, pluginId |-> req.pluginId]>>

\* variant: the answer an earlier call got for the same plugin is kept
querySupport_Cached(req) ==
    IF \E d \in CallIds : /\ calls[d].req.pluginId = req.pluginId
                          /\ calls[d].pc \notin {"idle", "awaitSupport"}
    THEN <<Ev("resolve")>>
    ELSE <<Ev("resolve"),
           [op |-> "supportQuery", isAngular |-> req.isAngular, pluginId |-> req.pluginId]>>

\* importPluginModule on a path that is not built-in, up to the await:
\* resolveModulePath(path), then isFrontendSandboxSupported({isAngular, pluginId})
querySupport(req) ==
    <<Ev("resolve"),
      [op |-> "supportQuery", isAngular |-> req.isAngular, pluginId |-> req.pluginId]>>

\* The synchronous run of importPluginModule up to its first await or its
\* return: cache registration, built-in lookup, path resolution and the
\* call of the sandbox-support query.
Begin(c, kind, meta, req) ==
    LET builtIn == builtInPlugins(req.path)
        registered == IF Truthy(req.version) THEN <<Ev("register")>> ELSE <<>>
        started == [calls[c] EXCEPT !.kind = kind, !.meta = meta, !.req = req]
    IN  /\ Loaded
        /\ calls[c].pc = "idle"
        /\ \A d \in CallIds : d < c => calls[d].pc # "idle"
        /\ cache' = RegisterIfVersion(cache, req)
        /\ lastReg' = IF Truthy(req.version)
                      THEN [k \in DOMAIN lastReg \cup {extractPath(req.path)} |->
                              IF k = extractPath(req.path) THEN req ELSE lastReg[k]]
                      ELSE lastReg
        /\ calls' = [calls EXCEPT ![c] =
             CASE hasBuiltIn(builtIn) /\ isFunction(builtIn) ->
                    [started EXCEPT !.pc = "awaitFactory",
                                    !.log = registered \o <<Ev("factory")>>]
               [] hasBuiltIn(builtIn) /\ ~isFunction(builtIn) ->
                    [started EXCEPT !.pc = "fulfilled",
                                    !.log = registered,
                                    !.module = builtIn.module]
               [] OTHER ->
                    [started EXCEPT !.pc = "awaitSupport",
                                    !.modulePath = resolveModulePath(req.path),
                                    !.log = registered \o querySupport(req)]]
        /\ UNCHANGED <<heap, boot>>

\* a direct call of importPluginModule
StartModule(c) == \E req \in Requests : Begin(c, "module", NoMeta, req)

\* importDataSourcePlugin(meta) up to the await inside importPluginModule
StartDataSource(c) == \E meta \in AdapterMetas : Begin(c, "datasource", meta, RequestOf(meta))

\* importAppPlugin(meta) up to the await inside importPluginModule
StartApp(c) == \E meta \in AdapterMetas : Begin(c, "app", meta, RequestOf(meta))

\* return await builtIn(): the factory's promise resolves
FactorySettles(c) ==
    /\ calls[c].pc = "awaitFactory"
    /\ calls' = [calls EXCEPT ![c].pc = "fulfilled",
                              ![c].module = builtInPlugins(calls[c].req.path).module]
    /\ UNCHANGED <<cache, heap, lastReg, boot>>

\* return await builtIn(): the factory's promise rejects
FactoryFails(c) ==
    /\ calls[c].pc = "awaitFactory"
    /\ calls' = [calls EXCEPT ![c].pc = "rejected", ![c].error = "FactoryError"]
    /\ UNCHANGED <<cache, heap, lastReg, boot>>

\* await isFrontendSandboxSupported(...) resolves; the call goes on to
\* importPluginModuleInSandbox({pluginId}) or SystemJS.import(modulePath)
SupportSettles(c) ==
    /\ calls[c].pc = "awaitSupport"
    /\ \E envSupported \in BOOLEAN :
         LET req == calls[c].req
             supported == isFrontendSandboxSupported(envSupported, req.isAngular, req.pluginId)
         IN  calls' = [calls EXCEPT ![c] =
               IF SandboxRoute(supported) = "sandbox"
               THEN [@ EXCEPT !.pc = "awaitSandbox",
                              !.log = Append(@, [op |-> "sandboxImport",
                                                 env |-> envSupported,
                                                 supported |-> supported,
                                                 pluginId |-> req.pluginId])]
               ELSE [@ EXCEPT !.pc = "awaitImport",
                              !.log = Append(@, [op |-> "loaderImport",
                                                 env |-> envSupported,
                                                 supported |-> supported,
                                                 url |-> calls[c].modulePath])]]
    /\ UNCHANGED <<cache, heap, lastReg, boot>>

\* variant: a failed support query falls back to the generic loader
supportRejected_Fallback(call) ==
    [call EXCEPT !.pc = "awaitImport",
                 !.log = Append(@, [op |-> "loaderImport", env |-> FALSE,
                                    supported |-> FALSE, url |-> call.modulePath])]

\* importPluginModule when the awaited support query rejects: there is no
\* try / catch, the call rejects with the query's error
supportRejected(call) == [call EXCEPT !.pc = "rejected", !.error = "SupportError"]

\* await isFrontendSandboxSupported(...) rejects
SupportFails(c) ==
    /\ calls[c].pc = "awaitSupport"
    /\ calls' = [calls EXCEPT ![c] =
                   supportRejected([@ EXCEPT !.log = Append(@, Ev("supportRejected"))])]
    /\ UNCHANGED <<cache, heap, lastReg, boot>>

\* the generic loader, importing for call c, asks the shouldFetch hook
LoaderShouldFetch(c) ==
    /\ calls[c].pc = "awaitImport"
    /\ ~Has(calls[c].log, "shouldFetch")
    /\ LET url == loaderUrl(cache, calls[c].modulePath)
       IN  calls' = [calls EXCEPT ![c].log =
             Append(@, [op |-> "shouldFetch", url |-> url,
                        known |-> hasPluginInCache(cache, url),
                        entry |-> IF hasPluginInCache(cache, url)
                                  THEN getPluginFromCache(cache, url)
                                  ELSE [version |-> Undefined, isAngular |-> Undefined],
                        last |-> IF extractPath(url) \in DOMAIN lastReg
                                 THEN lastReg[extractPath(url)]
                                 ELSE RequestOf(NoMeta),
                        decision |-> shouldFetch(cache, url)])]
    /\ UNCHANGED <<cache, heap, lastReg, boot>>

\* SystemJS.import(modulePath): the original import resolves and the
\* decoration's callback runs
ImportSettles(c) ==
    /\ calls[c].pc = "awaitImport"
    /\ \E m \in OriginalImportResults(calls[c].kind) :
         calls' = [calls EXCEPT ![c].pc = "fulfilled", ![c].raw = m,
                                ![c].module = decoratedImport(m)]
    /\ UNCHANGED <<cache, heap, lastReg, boot>>

\* variant: a failed import takes the call's cache entry back
ImportFails_Rollback(c) ==
    /\ calls[c].pc = "awaitImport"
    /\ calls' = [calls EXCEPT ![c].pc = "rejected", ![c].error = "ImportError"]
    /\ cache' = [k \in DOMAIN cache \ {extractPath(calls[c].req.path)} |-> cache[k]]
    /\ UNCHANGED <<heap, lastReg, boot>>

\* variant: a failed import is tried once more
ImportFails_Retry(c) ==
    /\ calls[c].pc = "awaitImport"
    /\ calls' = [calls EXCEPT ![c].log =
                   Append(@, [op |-> "loaderImport", env |-> FALSE, supported |-> FALSE,
                              url |-> calls[c].modulePath])]
    /\ UNCHANGED <<cache, heap, lastReg, boot>>

\* SystemJS.import(modulePath) rejects
ImportFails(c) ==
    /\ calls[c].pc = "awaitImport"
    /\ calls' = [calls EXCEPT ![c].pc = "rejected", ![c].error = "ImportError"]
    /\ UNCHANGED <<cache, heap, lastReg, boot>>

\* importPluginModuleInSandbox({pluginId}) resolves
SandboxSettles(c) ==
    /\ calls[c].pc = "awaitSandbox"
    /\ \E m \in Deliveries(calls[c].kind) :
         calls' = [calls EXCEPT ![c].pc = "fulfilled", ![c].raw = m, ![c].module = m]
    /\ UNCHANGED <<cache, heap, lastReg, boot>>

\* importPluginModuleInSandbox({pluginId}) rejects
SandboxFails(c) ==
    /\ calls[c].pc = "awaitSandbox"
    /\ calls' = [calls EXCEPT ![c].pc = "rejected", ![c].error = "SandboxError"]
    /\ UNCHANGED <<cache, heap, lastReg, boot>>

\* ------------------------------------------------------------------------
\* importDataSourcePlugin / importAppPlugin: the .then callbacks
\* ------------------------------------------------------------------------

Returned(h, o) == [heap |-> h, value |-> o, error |-> Null]

Thrown(h, e) == [heap |-> h, value |-> Null, error |-> e]

\* variant: a missing Datasource export is not detected, the constructor
\* slot is wrapped whatever it holds
dataSourceThen_NoExportCheck(h, fresh, pluginExports, meta) ==
    IF pluginExports = Null
    THEN Thrown(h, "TypeError")
    ELSE IF exports(pluginExports).plugin # Null
    THEN LET dsPlugin == exports(pluginExports).plugin
         IN  Returned(setMeta(h, dsPlugin, meta), dsPlugin)
    ELSE LET h1 == construct(h, fresh, exports(pluginExports).Datasource)
             h2 == setComponentsFromLegacyExports(h1, fresh, pluginExports)
         IN  Returned(setMeta(h2, fresh, meta), fresh)

\* variant: a pre-built plugin is copied into an object of the call's own
dataSourceThen_Copy(h, fresh, pluginExports, meta) ==
    IF pluginExports = Null
    THEN Thrown(h, "TypeError")
    ELSE IF exports(pluginExports).plugin # Null
    THEN Returned(setMeta(construct(h, fresh, Null), fresh, meta), fresh)
    ELSE IF exports(pluginExports).Datasource # Null
    THEN LET h1 == construct(h, fresh, exports(pluginExports).Datasource)
             h2 == setComponentsFromLegacyExports(h1, fresh, pluginExports)
         IN  Returned(setMeta(h2, fresh, meta), fresh)
    ELSE Thrown(h, "MissingExportError")

\* variant: the Datasource export is looked at before the plugin export
dataSourceThen_DatasourceFirst(h, fresh, pluginExports, meta) ==
    IF pluginExports = Null
    THEN Thrown(h, "TypeError")
    ELSE IF exports(pluginExports).Datasource # Null
    THEN LET h1 == construct(h, fresh, exports(pluginExports).Datasource)
             h2 == setComponentsFromLegacyExports(h1, fresh, pluginExports)
         IN  Returned(setMeta(h2, fresh, meta), fresh)
    ELSE IF exports(pluginExports).plugin # Null
    THEN LET dsPlugin == exports(pluginExports).plugin
         IN  Returned(setMeta(h, dsPlugin, meta), dsPlugin)
    ELSE Thrown(h, "MissingExportError")

\* importDataSourcePlugin's callback on the module pluginExports, for the
\* call that would construct object fresh
dataSourceThen(h, fresh, pluginExports, meta) ==
    IF pluginExports = Null
    THEN Thrown(h, "TypeError")
    ELSE IF exports(pluginExports).plugin # Null
    THEN LET dsPlugin == exports(pluginExports).plugin
         IN  Returned(setMeta(h, dsPlugin, meta), dsPlugin)
    ELSE IF exports(pluginExports).Datasource # Null
    THEN LET h1 == construct(h, fresh, exports(pluginExports).Datasource)
             h2 == setComponentsFromLegacyExports(h1, fresh, pluginExports)
         IN  Returned(setMeta(h2, fresh, meta), fresh)
    ELSE Thrown(h, "MissingExportError")

\* variant: init is called after meta is stamped
appThen_InitAfterMeta(h, fresh, pluginExports, meta) ==
    IF pluginExports = Null
    THEN Thrown(h, "TypeError")
    ELSE LET prebuilt == exports(pluginExports).plugin # Null
             plugin == IF prebuilt THEN exports(pluginExports).plugin ELSE fresh
             h0 == IF prebuilt THEN h ELSE construct(h, fresh, Null)
             h1 == setMeta(h0, plugin, meta)
             h2 == init(h1, plugin, meta)
         IN  Returned(setComponentsFromLegacyExports(h2, plugin, pluginExports), plugin)

\* importAppPlugin's callback
appThen(h, fresh, pluginExports, meta) ==
    IF pluginExports = Null
    THEN Thrown(h, "TypeError")
    ELSE LET prebuilt == exports(pluginExports).plugin # Null
             plugin == IF prebuilt THEN exports(pluginExports).plugin ELSE fresh
             h0 == IF prebuilt THEN h ELSE construct(h, fresh, Null)
             h1 == init(h0, plugin, meta)
             h2 == setMeta(h1, plugin, meta)
         IN  Returned(setComponentsFromLegacyExports(h2, plugin, pluginExports), plugin)

Settle(c, outcome) ==
    /\ heap' = outcome.heap
    /\ calls' = [calls EXCEPT ![c] =
         IF outcome.error = Null
         THEN [@ EXCEPT !.pc = "resolved", !.value = outcome.value]
         ELSE [@ EXCEPT !.pc = "rejected", !.error = outcome.error]]
    /\ UNCHANGED <<cache, lastReg, boot>>

ThenDataSource(c) ==
    /\ calls[c].pc = "fulfilled"
    /\ calls[c].kind = "datasource"
    /\ Settle(c, dataSourceThen(heap, NewObj(c), calls[c].module, calls[c].meta))

ThenApp(c) ==
    /\ calls[c].pc = "fulfilled"
    /\ calls[c].kind = "app"
    /\ Settle(c, appThen(heap, NewObj(c), calls[c].module, calls[c].meta))

\* ------------------------------------------------------------------------
\* Specification
\* ------------------------------------------------------------------------

\* variant: a call that waits for a capability gives up on its own
ModuleSteps_WithTimeout(c) ==
    \/ FactorySettles(c)
    \/ FactoryFails(c)
    \/ SupportSettles(c)
    \/ SupportFails(c)
    \/ LoaderShouldFetch(c)
    \/ ImportSettles(c)
    \/ ImportFails(c)
    \/ SandboxSettles(c)
    \/ SandboxFails(c)
    \/ /\ calls[c].pc \in {"awaitFactory", "awaitSupport", "awaitImport", "awaitSandbox"}
       /\ calls' = [calls EXCEPT ![c].pc = "rejected", ![c].error = "TimeoutError"]
       /\ UNCHANGED <<cache, heap, lastReg, boot>>

ModuleSteps(c) ==
    \/ FactorySettles(c)
    \/ FactoryFails(c)
    \/ SupportSettles(c)
    \/ SupportFails(c)
    \/ LoaderShouldFetch(c)
    \/ ImportSettles(c)
    \/ ImportFails(c)
    \/ SandboxSettles(c)
    \/ SandboxFails(c)

\* direct calls of importPluginModule
Next ==
    \/ Startup
    \/ \E c \in CallIds : StartModule(c)
    \/ \E c \in CallIds : ModuleSteps(c)

Spec == Init /\ [][Next]_vars

\* calls of importDataSourcePlugin and importAppPlugin
NextTyped ==
    \/ Startup
    \/ \E c \in CallIds : StartDataSource(c)
    \/ \E c \in CallIds : StartApp(c)
    \/ \E c \in CallIds : ModuleSteps(c)
    \/ \E c \in CallIds : ThenDataSource(c)
    \/ \E c \in CallIds : ThenApp(c)

SpecTyped == Init /\ [][NextTyped]_vars

\* the metadata the imports are exercised with when progress is checked:
\* every route, with and without the Angular flag
ProgressMetas ==
    {Meta(p, "v1", Undefined) : p \in {BuiltInModulePath, BuiltInFactoryPath, LocalPath}}
        \cup {Meta(LocalPath, "v1", "true")}

\* a call of any of the three import functions
StartAny(c) ==
    \E meta \in ProgressMetas :
        \/ Begin(c, "module", NoMeta, RequestOf(meta))
        \/ Begin(c, "datasource", meta, RequestOf(meta))
        \/ Begin(c, "app", meta, RequestOf(meta))

NextFair ==
    \/ Startup
    \/ \E c \in CallIds : StartAny(c)
    \/ \E c \in CallIds : ModuleSteps(c)
    \/ \E c \in CallIds : ThenDataSource(c)
    \/ \E c \in CallIds : ThenApp(c)

\* The imports when everything that is awaited settles: the module body
\* runs to its end, every capability a call waits for settles, and a
\* .then callback whose promise is fulfilled is run by the microtask queue.
SpecFair ==
    /\ Init
    /\ [][NextFair]_vars
    /\ WF_vars(Startup)
    /\ \A c \in CallIds :
          /\ WF_vars(ModuleSteps(c))
          /\ WF_vars(ThenDataSource(c))
          /\ WF_vars(ThenApp(c))

\* ------------------------------------------------------------------------
\* Properties
\* ------------------------------------------------------------------------

Started(c) == calls[c].pc # "idle"

\* the events of call c's trace with the given name
Events(c, name) == {calls[c].log[i] : i \in {j \in DOMAIN calls[c].log : calls[c].log[j].op = name}}

BuiltInPaths == {BuiltInModulePath, BuiltInFactoryPath}

\* C1: a call of importPluginModule whose path is a key of the built-in
\* registry (module or factory) never invokes the generic loader's import,
\* the sandbox-support query or importInSandbox, and when it resolves it
\* resolves to the registry module or to the factory's result.
C1_BuiltInBypassesLoaderAndSandbox ==
    \A c \in CallIds :
        (Started(c) /\ calls[c].req.path \in BuiltInPaths) =>
            /\ ~Has(calls[c].log, "loaderImport")
            /\ ~Has(calls[c].log, "shouldFetch")
            /\ ~Has(calls[c].log, "supportQuery")
            /\ ~Has(calls[c].log, "sandboxImport")
            /\ calls[c].pc \in {"awaitFactory", "fulfilled", "rejected"}
            /\ (calls[c].pc = "rejected" => calls[c].error = "FactoryError")
            /\ (calls[c].pc = "fulfilled" =>
                  calls[c].module =
                     IF calls[c].req.path = BuiltInModulePath THEN "mPlugin" ELSE "mDatasource")

\* C1 witness: a built-in module and a built-in factory have both been
\* imported and the calls resolved.
C1_Witness ==
    /\ calls[1].req.path = BuiltInModulePath /\ calls[1].pc = "fulfilled"
    /\ calls[2].req.path = BuiltInFactoryPath /\ calls[2].pc = "fulfilled"
    /\ Has(calls[2].log, "factory")

\* C2: in a call that carries a version the cache entry for the call's path
\* is written first: in its trace the registration precedes path resolution,
\* the support query and the loader's import, the cache holds an entry for
\* the path from then on, and whenever shouldFetch runs for that call it
\* finds an entry for the URL.
C2_RegisteredBeforeFetch ==
    \A c \in CallIds :
        (Started(c) /\ Truthy(calls[c].req.version)) =>
            /\ hasPluginInCache(cache, calls[c].req.path)
            /\ calls[c].log[1].op = "register"
            /\ \A e \in Events(c, "shouldFetch") :
                  e.known /\ extractPath(e.url) = extractPath(calls[c].req.path)

\* C2 witness: shouldFetch ran for a call with a version and found the entry.
C2_Witness ==
    \E c \in CallIds :
        /\ Truthy(calls[c].req.version)
        /\ calls[c].req.isAngular # "true"
        /\ \E e \in Events(c, "shouldFetch") : e.known

C4_ShouldFetchDecision ==
    \A c \in CallIds :
        \A e \in Events(c, "shouldFetch") :
            e.decision <=> (e.url.host = "cdn" \/ (e.known /\ e.entry.isAngular = "true"))

\* C4 witness: one URL off the CDN was fetched-and-evaluated for its Angular
\* entry, another one with a non-Angular entry got the script tag.
C4_Witness ==
    \E c, d \in CallIds :
        /\ \E e \in Events(c, "shouldFetch") :
              e.decision /\ e.url.host # "cdn" /\ e.entry.isAngular = "true"
        /\ \E e \in Events(d, "shouldFetch") :
              ~e.decision /\ e.known /\ e.entry.isAngular = Undefined

\* C4 witness, CDN case: a CDN URL without a cache entry is fetched.
C4_WitnessCDN ==
    \E c \in CallIds :
        \E e \in Events(c, "shouldFetch") : e.decision /\ ~e.known /\ e.url.host = "cdn"

\* the cache entry a registering request leaves
EntryOf(req) == [version |-> req.version, isAngular |-> req.isAngular]

\* C5: the cache entry of a path is exactly the version and isAngular of the
\* most recent call that registered the path, whatever calls are in flight,
\* and a shouldFetch decision is made on the flags registered last before it.
C5_LastRegistrationWins ==
    /\ DOMAIN cache = DOMAIN lastReg
    /\ \A k \in DOMAIN cache : cache[k] = EntryOf(lastReg[k])
    /\ \A c \in CallIds :
          \A e \in Events(c, "shouldFetch") :
              /\ e.known <=> Truthy(e.last.version)
              /\ e.known => e.entry = EntryOf(e.last)
              /\ e.known => (e.decision <=> (e.url.host = "cdn" \/ e.last.isAngular = "true"))

\* C5 witness: call 1 registered a path and is still importing; call 2 then
\* registered the same path with another version and another flag, and the
\* fetch decision for call 1 was made on call 2's flags.
C5_Witness ==
    /\ calls[1].pc = "awaitImport"
    /\ Started(2)
    /\ Truthy(calls[1].req.version)
    /\ Truthy(calls[2].req.version)
    /\ calls[1].req.path = calls[2].req.path
    /\ calls[1].req.version # calls[2].req.version
    /\ calls[1].req.isAngular = "true"
    /\ calls[2].req.isAngular = "false"
    /\ cache[extractPath(calls[1].req.path)] = EntryOf(calls[2].req)
    /\ \E e \in Events(1, "shouldFetch") : e.entry = EntryOf(calls[2].req) /\ ~e.decision

\* the calls whose support query has resolved
SupportAnswered(c) ==
    \/ calls[c].pc \in {"awaitSandbox", "awaitImport"}
    \/ calls[c].pc = "fulfilled" /\ calls[c].req.path \notin BuiltInPaths
    \/ calls[c].pc = "rejected" /\ calls[c].error \in {"ImportError", "SandboxError"}

\* C6: a non-built-in call invokes exactly one import capability once its
\* support query has resolved: importInSandbox and not the loader's import
\* when the answer is true, the loader's import with the resolved module
\* path and not importInSandbox when it is false.
C6_ExactlyOneRoute ==
    \A c \in CallIds :
        /\ Count(calls[c].log, "loaderImport") + Count(calls[c].log, "sandboxImport") <= 1
        /\ SupportAnswered(c) =>
              Count(calls[c].log, "loaderImport") + Count(calls[c].log, "sandboxImport") = 1
        /\ \A e \in Events(c, "sandboxImport") :
              e.supported /\ e.pluginId = calls[c].req.pluginId
        /\ \A e \in Events(c, "loaderImport") :
              ~e.supported /\ e.url = resolveModulePath(calls[c].req.path)

\* C6 witness: one call went to the sandbox, the other to the loader.
C6_Witness ==
    /\ Has(calls[1].log, "sandboxImport") /\ calls[1].pc = "fulfilled"
    /\ Has(calls[2].log, "loaderImport") /\ calls[2].pc = "fulfilled"

\* C7: when the sandbox-support query rejects, the call rejects with that
\* failure and invokes neither the loader's import nor importInSandbox.
C7_SupportFailurePropagates ==
    \A c \in CallIds :
        Has(calls[c].log, "supportRejected") =>
            /\ calls[c].pc = "rejected"
            /\ calls[c].error = "SupportError"
            /\ ~Has(calls[c].log, "loaderImport")
            /\ ~Has(calls[c].log, "shouldFetch")
            /\ ~Has(calls[c].log, "sandboxImport")

\* C7 witness: a call whose support query rejected.
C7_Witness ==
    \E c \in CallIds :
        /\ Has(calls[c].log, "supportRejected")
        /\ calls[c].error = "SupportError"

\* call c's .then callback runs in this step
ThenRuns(c) == calls[c].pc = "fulfilled" /\ calls'[c].pc # "fulfilled"

\* the module has neither a plugin nor a Datasource export
NeitherExport(m) ==
    m # Null /\ exports(m).plugin = Null /\ exports(m).Datasource = Null

\* C8: when the imported module has neither a plugin nor a Datasource
\* export, importDataSourcePlugin fails with the explicit missing-export
\* error and returns no object; the step constructs no object and changes
\* no object's meta.
C8_MissingExportFails ==
    [][\A c \in CallIds :
         (ThenRuns(c) /\ calls[c].kind = "datasource" /\ NeitherExport(calls[c].module)) =>
             /\ calls'[c].pc = "rejected"
             /\ calls'[c].error = "MissingExportError"
             /\ calls'[c].value = Null
             /\ heap' = heap]_vars

\* C8 witness: importDataSourcePlugin failed on a module with neither
\* export, and nothing was constructed for it.
C8_Witness ==
    \E c \in CallIds :
        /\ calls[c].kind = "datasource"
        /\ calls[c].pc = "rejected"
        /\ calls[c].module = "mEmpty"
        /\ calls[c].error = "MissingExportError"
        /\ ~heap[NewObj(c)].alloc

\* C9: importDataSourcePlugin decodes in a fixed order.  A plugin export is
\* returned as it is (also next to a Datasource export): the step only
\* stamps its meta, no bindings are populated, nothing is constructed.
\* Otherwise a Datasource export is wrapped in a new plugin object whose
\* bindings are populated from the module.  The returned object's meta is
\* the input metadata in both cases.
C9_DecodeOrder ==
    [][\A c \in CallIds :
         (ThenRuns(c) /\ calls[c].kind = "datasource" /\ calls'[c].pc = "resolved") =>
             LET m == calls[c].module
                 o == calls'[c].value
                 stamp == [op |-> "meta", meta |-> calls[c].meta]
             IN  /\ m # Null
                 /\ heap'[o].meta = calls[c].meta
                 /\ \A x \in ObjIds \ {o} : heap'[x] = heap[x]
                 /\ IF exports(m).plugin # Null
                    THEN /\ o = exports(m).plugin
                         /\ heap'[o].ops = Append(heap[o].ops, stamp)
                         /\ heap'[o].ctor = heap[o].ctor
                    ELSE /\ exports(m).Datasource # Null
                         /\ o = NewObj(c)
                         /\ ~heap[o].alloc
                         /\ heap'[o].alloc
                         /\ heap'[o].ctor = exports(m).Datasource
                         /\ heap'[o].ops =
                              << [op |-> "new", ctor |-> exports(m).Datasource],
                                 [op |-> "legacy", module |-> m],
                                 stamp >>]_vars

\* C9 witness: one import returned the pre-built plugin of a module that
\* also exports Datasource, the other wrapped a Datasource constructor.
C9_Witness ==
    /\ calls[1].kind = "datasource" /\ calls[1].pc = "resolved"
    /\ calls[1].module = "mBoth" /\ calls[1].value = "P1"
    /\ heap["P1"].meta = calls[1].meta
    /\ calls[2].kind = "datasource" /\ calls[2].pc = "resolved"
    /\ calls[2].module = "mDatasource" /\ calls[2].value = NewObj(2)
    /\ heap[NewObj(2)].ctor = "DsCtor"
    /\ heap[NewObj(2)].meta = calls[2].meta

\* C10: when the imported module has no plugin export, importAppPlugin
\* returns a newly constructed app plugin on which init was called exactly
\* once with the supplied metadata, before meta is stamped and before the
\* legacy bindings are populated; a missing plugin export never fails it.
C10_DefaultAppPlugin ==
    \A c \in CallIds :
        (calls[c].kind = "app" /\ calls[c].module # Null
            /\ calls[c].pc \in {"resolved", "rejected"}
            /\ calls[c].error \notin {"FactoryError", "SupportError", "ImportError", "SandboxError"}) =>
            /\ calls[c].pc = "resolved"
            /\ exports(calls[c].module).plugin = Null =>
                  /\ calls[c].value = NewObj(c)
                  /\ heap[NewObj(c)].alloc
                  /\ heap[NewObj(c)].meta = calls[c].meta
                  /\ heap[NewObj(c)].ops =
                       << [op |-> "new", ctor |-> Null],
                          [op |-> "init", meta |-> calls[c].meta],
                          [op |-> "meta", meta |-> calls[c].meta],
                          [op |-> "legacy", module |-> calls[c].module] >>

\* C10 witness: importAppPlugin resolved on a module without exports.
C10_Witness ==
    \E c \in CallIds :
        /\ calls[c].kind = "app"
        /\ calls[c].pc = "resolved"
        /\ calls[c].module = "mEmpty"
        /\ calls[c].value = NewObj(c)
        /\ Len(heap[NewObj(c)].ops) = 4

\* the call went through the generic loader and its import resolved
LoaderDelivered(c) == calls[c].pc = "fulfilled" /\ Has(calls[c].log, "loaderImport")

\* the module object carries the __useDefault marker
CarriesMarker(m) == m # Null /\ exports(m).useDefault

\* C11: the decorated import resolves to the default value of the module
\* the original import delivered when that module carries __useDefault,
\* and to the very same module object (or null) when it does not.
C11_DefaultExportRoundTrip ==
    \A c \in CallIds :
        LoaderDelivered(c) =>
            IF CarriesMarker(calls[c].raw)
            THEN /\ calls[c].module = exports(calls[c].raw).default
                 /\ calls[c].module # calls[c].raw
            ELSE calls[c].module = calls[c].raw

\* C11 witness: one import delivered a module with the marker and resolved
\* to its default, another delivered null and resolved to null.
C11_Witness ==
    /\ LoaderDelivered(1) /\ calls[1].raw = "mDefault" /\ calls[1].module = "mPlugin"
    /\ LoaderDelivered(2) /\ calls[2].raw = Null /\ calls[2].module = Null

\* the failure of the capability a call in position pc is waiting for
FailureOf(pc) ==
    CASE pc = "awaitFactory" -> "FactoryError"
      [] pc = "awaitImport" -> "ImportError"
      [] pc = "awaitSandbox" -> "SandboxError"
      [] OTHER -> Null

\* the trace event of invoking the capability a call in position pc waits for
InvocationOf(pc) ==
    CASE pc = "awaitFactory" -> "factory"
      [] pc = "awaitImport" -> "loaderImport"
      [] pc = "awaitSandbox" -> "sandboxImport"
      [] OTHER -> "none"

\* C12: when the loader's import, the sandbox import or a built-in factory
\* fails, the import call (typed or not) fails with that very failure, the
\* failing capability has been invoked once and is not invoked again, and
\* no normalization (construction, init, meta, bindings) runs for the call:
\* the step changes no object and a failed call takes no further step.
C12_FailuresPropagateUnchanged ==
    [][\A c \in CallIds :
         /\ (FailureOf(calls[c].pc) # Null /\ calls'[c].pc # calls[c].pc
                /\ calls'[c].pc # "fulfilled") =>
               /\ calls'[c].pc = "rejected"
               /\ calls'[c].error = FailureOf(calls[c].pc)
               /\ calls'[c].value = Null
               /\ calls'[c].log = calls[c].log
               /\ heap' = heap
         /\ Count(calls'[c].log, "factory") <= 1
         /\ Count(calls'[c].log, "loaderImport") <= 1
         /\ Count(calls'[c].log, "sandboxImport") <= 1
         /\ (FailureOf(calls[c].pc) # Null =>
               Count(calls[c].log, InvocationOf(calls[c].pc)) = 1)
         /\ (calls[c].pc = "rejected" => calls'[c] = calls[c])]_vars

\* C12 witness: a typed import failed with the loader's failure, another
\* with the factory's, and nothing was constructed for either.
C12_Witness ==
    /\ calls[1].kind = "datasource" /\ calls[1].pc = "rejected"
    /\ calls[1].error = "ImportError" /\ Count(calls[1].log, "loaderImport") = 1
    /\ calls[2].kind = "app" /\ calls[2].pc = "rejected"
    /\ calls[2].error = "FactoryError" /\ Count(calls[2].log, "factory") = 1
    /\ ~heap[NewObj(1)].alloc /\ ~heap[NewObj(2)].alloc
    /\ heap["P1"].ops = <<>>

\* the import capabilities call c has invoked
Imports(c) == Count(calls[c].log, "loaderImport") + Count(calls[c].log, "sandboxImport")

\* C13: the core does not collapse duplicate requests: every call for a
\* path that is not built-in makes its own support query and, once that is
\* answered, its own invocation of an import capability, also when another
\* call for the same path is in flight; no call's progress depends on
\* another call (each awaited settlement can be taken whatever the other
\* call does).
C13_NoDeduplication ==
    /\ \A c \in CallIds :
          (Started(c) /\ calls[c].req.path \notin BuiltInPaths) =>
              /\ Count(calls[c].log, "supportQuery") = 1
              /\ SupportAnswered(c) => Imports(c) = 1
              /\ calls[c].pc = "awaitSupport" => ENABLED SupportSettles(c)
              /\ calls[c].pc = "awaitImport" => ENABLED ImportSettles(c)
              /\ calls[c].pc = "awaitSandbox" => ENABLED SandboxSettles(c)
    /\ \A c, d \in CallIds :
          (c # d /\ Started(c) /\ Started(d) /\ calls[c].req.path = calls[d].req.path
              /\ calls[c].req.path \notin BuiltInPaths) =>
              /\ Count(calls[c].log, "supportQuery") + Count(calls[d].log, "supportQuery") = 2
              /\ (SupportAnswered(c) /\ SupportAnswered(d)) => Imports(c) + Imports(d) = 2

\* C13 witness: two calls for the same path overlap, each has made its own
\* support query and its own loader import, and both imports are pending.
C13_Witness ==
    /\ calls[1].req.path = LocalPath /\ calls[2].req.path = LocalPath
    /\ calls[1].pc = "awaitImport" /\ calls[2].pc = "awaitImport"
    /\ Count(calls[1].log, "supportQuery") = 1 /\ Count(calls[2].log, "supportQuery") = 1
    /\ Count(calls[1].log, "loaderImport") = 1 /\ Count(calls[2].log, "loaderImport") = 1

\* C14: the routing decision is not cached: every call for a path that is
\* not built-in queries the support capability exactly once, with its own
\* pluginId and isAngular, whatever earlier calls for the plugin were
\* answered.
C14_SupportQueriedAfresh ==
    \A c \in CallIds :
        (Started(c) /\ calls[c].req.path \notin BuiltInPaths) =>
            /\ Count(calls[c].log, "supportQuery") = 1
            /\ Events(c, "supportQuery") =
                  {[op |-> "supportQuery", isAngular |-> calls[c].req.isAngular,
                    pluginId |-> calls[c].req.pluginId]}
            /\ \A e \in Events(c, "sandboxImport") : e.env
            /\ \A e \in Events(c, "loaderImport") :
                  e.env => calls[c].req.isAngular = "true"

\* C14 witness: two calls with the same request took different routes: the
\* first went to the sandbox, the second, answered differently, to the loader.
C14_Witness ==
    /\ calls[1].req = calls[2].req
    /\ calls[1].pc = "fulfilled" /\ Has(calls[1].log, "sandboxImport")
    /\ calls[2].pc = "fulfilled" /\ Has(calls[2].log, "loaderImport")

HookOverrides == {"shouldFetch", "import", "fetch", "resolve", "onload"}

\* how often a statement has run during initialisation
Ran(name) == Cardinality({i \in DOMAIN boot : boot[i] = name})

\* C16: at start-up the import map is built and installed exactly once,
\* before any hook override is installed and before any import call runs,
\* and it is never installed again.
C16_ImportMapInstalledOnceFirst ==
    /\ Ran("buildImportMap") <= 1
    /\ Ran("addImportMap") <= 1
    /\ \A i \in DOMAIN boot :
          boot[i] = "addImportMap" => \E j \in 1..(i - 1) : boot[j] = "buildImportMap"
    /\ \A i \in DOMAIN boot :
          boot[i] \in HookOverrides => \E j \in 1..(i - 1) : boot[j] = "addImportMap"
    /\ \A c \in CallIds :
          Started(c) => (Ran("addImportMap") = 1 /\ \A h \in HookOverrides : Ran(h) = 1)

\* C16 witness: the module is initialised, the import map installed once
\* and an import call has resolved.
C16_Witness ==
    /\ Loaded
    /\ Ran("addImportMap") = 1
    /\ boot[2] = "addImportMap"
    /\ boot[3] = "shouldFetch"
    /\ \E c \in CallIds : calls[c].pc = "fulfilled" /\ Has(calls[c].log, "loaderImport")

\* C17: the set of paths with a cache entry only grows: no step removes an
\* entry, and the entry a call with a version wrote is there whatever
\* became of the call (built-in, sandbox, loader, failure).
C17_CacheOnlyGrows ==
    [][/\ DOMAIN cache \subseteq DOMAIN cache'
       /\ \A c \in CallIds :
             (calls'[c].pc # "idle" /\ Truthy(calls'[c].req.version)) =>
                 extractPath(calls'[c].req.path) \in DOMAIN cache']_vars

\* C17 witness: a built-in import and a failed import both left their
\* entries in the cache.
C17_Witness ==
    /\ calls[1].req.path = BuiltInModulePath /\ calls[1].pc = "fulfilled"
    /\ calls[2].req.path = LocalPath /\ calls[2].pc = "rejected"
    /\ calls[2].error = "ImportError"
    /\ Truthy(calls[1].req.version) /\ Truthy(calls[2].req.version)
    /\ DOMAIN cache = {extractPath(BuiltInModulePath), extractPath(LocalPath)}

\* C18: a call without a version (absent or the empty string) leaves the
\* cache as it is, whatever isAngular it carries, and a shouldFetch made
\* for it is decided on the flags registered before.
C18_NoVersionNoRegistration ==
    [][\A c \in CallIds :
         ~Truthy(calls'[c].req.version) =>
            /\ (calls[c].pc = "idle" /\ calls'[c].pc # "idle") => cache' = cache
            /\ \A i \in DOMAIN calls'[c].log :
                  (calls'[c].log[i].op = "shouldFetch" /\ calls'[c].log[i].known) =>
                      /\ calls'[c].log[i].entry = EntryOf(calls'[c].log[i].last)
                      /\ calls'[c].log[i].last # calls'[c].req
                      /\ calls'[c].log[i].decision <=>
                            (calls'[c].log[i].url.host = "cdn"
                               \/ calls'[c].log[i].last.isAngular = "true")]_vars

\* C18 witness: call 2 passed the empty version and isAngular false for a
\* path call 1 had registered as Angular; the entry is still call 1's and
\* the fetch decision for call 2 was made on it.
C18_Witness ==
    /\ calls[1].req.path = LocalPath /\ calls[2].req.path = LocalPath
    /\ Truthy(calls[1].req.version) /\ calls[1].req.isAngular = "true"
    /\ calls[2].req.version = "" /\ calls[2].req.isAngular = "false"
    /\ cache[extractPath(LocalPath)] = EntryOf(calls[1].req)
    /\ \E e \in Events(2, "shouldFetch") : e.decision /\ e.entry = EntryOf(calls[1].req)

\* importPluginModule has delivered a module to call c
Delivered(c) ==
    \/ calls[c].pc \in {"fulfilled", "resolved"}
    \/ calls[c].pc = "rejected" /\ calls[c].error \in {"MissingExportError", "TypeError"}

\* C19 as stated: whichever route delivered it, a module carrying
\* __useDefault is replaced by its default export before importPluginModule
\* returns it, so no adapter ever inspects a module carrying the marker.
C19_SubstitutedOnEveryRoute ==
    \A c \in CallIds :
        Delivered(c) =>
            /\ ~CarriesMarker(calls[c].module)
            /\ CarriesMarker(calls[c].raw) => calls[c].module = exports(calls[c].raw).default

\* C19 amended: the substitution is made on the generic loader's route
\* only.  A module the loader delivered with the marker is replaced by its
\* default export before the adapter inspects it; a module delivered by the
\* sandbox capability or taken from the built-in registry is returned and
\* inspected as delivered, marker or not.
C19_SubstitutedOnLoaderRouteOnly ==
    \A c \in CallIds :
        Delivered(c) =>
            /\ Has(calls[c].log, "loaderImport") =>
                  calls[c].module =
                     IF CarriesMarker(calls[c].raw)
                     THEN exports(calls[c].raw).default
                     ELSE calls[c].raw
            /\ Has(calls[c].log, "sandboxImport") => calls[c].module = calls[c].raw
            /\ calls[c].req.path \in BuiltInPaths =>
                  calls[c].module = builtInPlugins(calls[c].req.path).module
            /\ (calls[c].kind = "datasource" /\ calls[c].pc = "resolved") =>
                  ~NeitherExport(calls[c].module)
            /\ calls[c].error = "MissingExportError" => NeitherExport(calls[c].module)
            /\ calls[c].error = "TypeError" => calls[c].module = Null

\* C19 witness: the same marked module came once through the loader and
\* was replaced by its default export, whose pre-built plugin the adapter
\* returned, and once through the sandbox, where the adapter found no export.
C19_Witness ==
    /\ calls[1].kind = "datasource" /\ Has(calls[1].log, "loaderImport")
    /\ calls[1].raw = "mDefault" /\ calls[1].module = "mPlugin"
    /\ calls[1].pc = "resolved" /\ calls[1].value = "P1"
    /\ calls[2].kind = "datasource" /\ Has(calls[2].log, "sandboxImport")
    /\ calls[2].raw = "mDefault" /\ calls[2].module = "mDefault"
    /\ calls[2].pc = "rejected" /\ calls[2].error = "MissingExportError"

\* the typed calls that returned object o
Returners(o) == {c \in CallIds : calls[c].pc = "resolved" /\ calls[c].value = o}

\* the operations of the given name performed on object o
OpsOn(o, name) == {i \in DOMAIN heap[o].ops : heap[o].ops[i].op = name}

\* C20 as stated: two typed imports with different metadata never return
\* one shared object, the meta of a returned object stays the metadata of
\* the call that returned it, and init is called once on it at most.
C20_ExclusiveOwnership ==
    /\ \A c, d \in CallIds :
          (c # d /\ calls[c].pc = "resolved" /\ calls[d].pc = "resolved"
              /\ calls[c].meta # calls[d].meta) => calls[c].value # calls[d].value
    /\ \A c \in CallIds :
          calls[c].pc = "resolved" =>
              /\ heap[calls[c].value].meta = calls[c].meta
              /\ Cardinality(OpsOn(calls[c].value, "init")) <= 1

\* C20 amended: a typed import owns the object it returns only when it
\* constructed it (a wrapped Datasource, a default app plugin): no other
\* call returns that object and its meta stays that call's metadata.  When
\* the module exports a pre-built plugin, every import returns that same
\* object: each stamps its meta, which is the metadata of one of the calls
\* that returned it, and each importAppPlugin calls its init again.
C20_OwnedUnlessPrebuilt ==
    /\ \A c \in CallIds :
          calls[c].pc = "resolved" =>
              IF exports(calls[c].module).plugin # Null
              THEN calls[c].value = exports(calls[c].module).plugin
              ELSE /\ calls[c].value = NewObj(c)
                   /\ Returners(calls[c].value) = {c}
                   /\ heap[calls[c].value].meta = calls[c].meta
                   /\ Cardinality(OpsOn(calls[c].value, "meta")) = 1
                   /\ Cardinality(OpsOn(calls[c].value, "init")) =
                         IF calls[c].kind = "app" THEN 1 ELSE 0
    /\ Returners("P1") # {} => heap["P1"].meta \in {calls[c].meta : c \in Returners("P1")}
    /\ Cardinality(OpsOn("P1", "meta")) = Cardinality(Returners("P1"))
    /\ Cardinality(OpsOn("P1", "init")) =
          Cardinality({c \in Returners("P1") : calls[c].kind = "app"})

\* C20 witness: two importAppPlugin calls with different metadata returned
\* the same pre-built plugin; init ran twice on it and its meta is the
\* second call's (the first caller's object changed under it).
C20_Witness ==
    /\ calls[1].kind = "app" /\ calls[2].kind = "app"
    /\ calls[1].pc = "resolved" /\ calls[2].pc = "resolved"
    /\ calls[1].value = "P1" /\ calls[2].value = "P1"
    /\ calls[1].meta # calls[2].meta
    /\ heap["P1"].meta = calls[2].meta
    /\ Cardinality(OpsOn("P1", "init")) = 2

Awaiting == {"awaitFactory", "awaitSupport", "awaitImport", "awaitSandbox"}

\* the call has settled: resolved or rejected for its caller
Settled(c) ==
    \/ calls[c].pc \in {"resolved", "rejected"}
    \/ calls[c].pc = "fulfilled" /\ calls[c].kind = "module"

\* the capability call c waits for settles in this step
AwaitedSettles(c) ==
    \/ calls[c].pc = "awaitFactory" /\ (FactorySettles(c) \/ FactoryFails(c))
    \/ calls[c].pc = "awaitSupport" /\ (SupportSettles(c) \/ SupportFails(c))
    \/ calls[c].pc = "awaitImport" /\ (ImportSettles(c) \/ ImportFails(c))
    \/ calls[c].pc = "awaitSandbox" /\ (SandboxSettles(c) \/ SandboxFails(c))

\* C15: there is no internal timeout or cancellation: a call that waits
\* for a capability (factory, support query, loader import, sandbox import)
\* leaves that position only in the step in which the capability settles,
\* so it never settles while the capability does not; and when every
\* awaited capability does settle, every call that was started settles.
C15_SettlesOnlyWithCapability ==
    /\ [][\A c \in CallIds :
            (calls[c].pc \in Awaiting /\ calls'[c].pc # calls[c].pc) => AwaitedSettles(c)]_vars
    /\ \A c \in CallIds : Started(c) ~> Settled(c)

\* C15 witness: one import is still waiting for the loader while a later
\* call has already settled.
C15_Witness ==
    /\ calls[1].pc = "awaitImport"
    /\ calls[2].pc = "resolved"

====
